---- MODULE Spec2Model ----
(***************************************************************************)
(* Model of src/terminal_bench_wrapper.py: TypeScriptAgentWrapper, the     *)
(* Python wrapper that runs the TypeScript agent as a subprocess and       *)
(* reports an AgentResult to the Terminal-Bench harness.                   *)
(*                                                                         *)
(* Text that the code inspects (container listing fields, argv elements)   *)
(* is a sequence of chunks, so that 'in', endswith and split() are         *)
(* computed on the text rather than assumed.  Environment values and       *)
(* process output are plain strings: the code only copies them.            *)
(***************************************************************************)
EXTENDS Integers, Sequences, FiniteSets, TLC

\* ------------------------------------------------------------------ bounds
\* Largest number of lines in the output of `docker ps`.
MaxLines == 2
\* Agent exit codes range over 0..MaxReturnCode.
MaxReturnCode == 2

\* --------------------------------------------------------------- constants
\* timeout= of both subprocess.run calls that start the agent (seconds).
AgentTimeout == 3600

\* ------------------------------------------------------------- exceptions
\* The exception classes the wrapper's subprocess and file operations raise.
\* All of them are subclasses of Exception; TimeoutExpired and
\* CalledProcessError are subclasses of subprocess.SubprocessError.
NoExc == "none"
ExceptionClasses == {"TimeoutExpired", "CalledProcessError", "RuntimeError", "OSError"}

\* ------------------------------------------------------------ AgentResult
FailureModes == {"NONE", "AGENT_TIMEOUT", "UNKNOWN_AGENT_ERROR"}
AgentResult(fm) ==
  [failure_mode |-> fm, total_input_tokens |-> 0, total_output_tokens |-> 0]
\* perform_task has not returned (yet).
NoResult ==
  [failure_mode |-> "unset", total_input_tokens |-> -1, total_output_tokens |-> -1]

\* What a block of code ends with: a returned AgentResult or a raised exception.
Returns(r) == [kind |-> "return", value |-> r, exc |-> NoExc]
Raises(e)  == [kind |-> "raise", value |-> NoResult, exc |-> e]

\* ------------------------------------------------------------------- text
Str(s) == <<s>>
\* Python None / '' for an Optional[str]; `not x` is true of both.
None == <<>>
Falsy(x) == Len(x) = 0

\* s.endswith(suffix)
EndsWith(s, suffix) ==
  /\ Len(s) >= Len(suffix)
  /\ SubSeq(s, Len(s) - Len(suffix) + 1, Len(s)) = suffix

\* sub in s
Contains(s, sub) ==
  \E i \in 0..(Len(s) - Len(sub)) : SubSeq(s, i + 1, i + Len(sub)) = sub

\* ------------------------------------------------------------ environment
\* An environment is a function from the names that are set to their values.
OPENROUTER_API_KEY == "OPENROUTER_API_KEY"
OPENAI_API_KEY == "OPENAI_API_KEY"
LITELLM_MODEL == "LITELLM_MODEL"
LITELLM_TEMPERATURE == "LITELLM_TEMPERATURE"
TERMINAL_BENCH_SESSION == "TERMINAL_BENCH_SESSION"
PATH == "PATH"

EmptyEnv == [k \in {} |-> ""]
Put(env, k, v) == [x \in (DOMAIN env) \cup {k} |-> IF x = k THEN v ELSE env[x]]

\* The ambient environments (os.environ) the model starts from: PATH is
\* always set, each recognised variable is set or not.
AmbientValue(k) ==
  CASE k = OPENROUTER_API_KEY -> "sk-or"
    [] k = OPENAI_API_KEY -> "sk-oa"
    [] k = LITELLM_MODEL -> "my/model"
    [] k = LITELLM_TEMPERATURE -> "0.7"
    [] OTHER -> "/usr/bin"
OptionalKeys == {OPENROUTER_API_KEY, OPENAI_API_KEY, LITELLM_MODEL, LITELLM_TEMPERATURE}
AmbientEnvs ==
  { [k \in ks \cup {PATH} |-> AmbientValue(k)] : ks \in SUBSET OptionalKeys }

\* The .env files beside the wrapper: none, or one that sets a credential.
DotenvFiles ==
  { EmptyEnv, [k \in {OPENAI_API_KEY} |-> "sk-dotenv"] }

\* load_dotenv(env_file): variables already set are kept (override=False).
load_dotenv(environ, file) ==
  [k \in (DOMAIN environ) \cup (DOMAIN file) |->
      IF k \in DOMAIN environ THEN environ[k] ELSE file[k]]

\* Faulty variant: _setup_environment without the credential check.
setup_environment_nocheck(environ) ==
  LET env1 == IF LITELLM_MODEL \notin DOMAIN environ
              THEN IF OPENROUTER_API_KEY \in DOMAIN environ
                   THEN Put(environ, LITELLM_MODEL, "anthropic/claude-3.5-sonnet")
                   ELSE Put(environ, LITELLM_MODEL, "gpt-4")
              ELSE environ
      env2 == IF LITELLM_TEMPERATURE \notin DOMAIN env1
              THEN Put(env1, LITELLM_TEMPERATURE, "0.1")
              ELSE env1
  IN [exc |-> NoExc, env |-> env2]

\* Faulty variant: the two default models are exchanged.
setup_environment_swapped_defaults(environ) ==
  LET env1 == IF LITELLM_MODEL \notin DOMAIN environ
              THEN IF OPENROUTER_API_KEY \in DOMAIN environ
                   THEN Put(environ, LITELLM_MODEL, "gpt-4")
                   ELSE Put(environ, LITELLM_MODEL, "anthropic/claude-3.5-sonnet")
              ELSE environ
      env2 == IF LITELLM_TEMPERATURE \notin DOMAIN env1
              THEN Put(env1, LITELLM_TEMPERATURE, "0.1")
              ELSE env1
  IN IF OPENROUTER_API_KEY \notin DOMAIN environ /\ OPENAI_API_KEY \notin DOMAIN environ
     THEN [exc |-> "RuntimeError", env |-> EmptyEnv]
     ELSE [exc |-> NoExc, env |-> env2]

\* Faulty variant: the OpenAI key is looked at first.
setup_environment_openai_first(environ) ==
  LET env1 == IF LITELLM_MODEL \notin DOMAIN environ
              THEN IF OPENAI_API_KEY \in DOMAIN environ
                   THEN Put(environ, LITELLM_MODEL, "gpt-4")
                   ELSE Put(environ, LITELLM_MODEL, "anthropic/claude-3.5-sonnet")
              ELSE environ
      env2 == IF LITELLM_TEMPERATURE \notin DOMAIN env1
              THEN Put(env1, LITELLM_TEMPERATURE, "0.1")
              ELSE env1
  IN IF OPENROUTER_API_KEY \notin DOMAIN environ /\ OPENAI_API_KEY \notin DOMAIN environ
     THEN [exc |-> "RuntimeError", env |-> EmptyEnv]
     ELSE [exc |-> NoExc, env |-> env2]

\* Faulty variant: the temperature is assigned whether or not it is set.
setup_environment_overwrite(environ) ==
  LET env1 == IF LITELLM_MODEL \notin DOMAIN environ
              THEN IF OPENROUTER_API_KEY \in DOMAIN environ
                   THEN Put(environ, LITELLM_MODEL, "anthropic/claude-3.5-sonnet")
                   ELSE Put(environ, LITELLM_MODEL, "gpt-4")
              ELSE environ
      env2 == Put(env1, LITELLM_TEMPERATURE, "0.1")
  IN IF OPENROUTER_API_KEY \notin DOMAIN environ /\ OPENAI_API_KEY \notin DOMAIN environ
     THEN [exc |-> "RuntimeError", env |-> EmptyEnv]
     ELSE [exc |-> NoExc, env |-> env2]

\* _setup_environment: [exc, env]; env is a copy, os.environ is not assigned.
setup_environment(environ) ==
  LET env0 == environ
      env1 == IF LITELLM_MODEL \notin DOMAIN env0
              THEN IF OPENROUTER_API_KEY \in DOMAIN env0
                   THEN Put(env0, LITELLM_MODEL, "anthropic/claude-3.5-sonnet")
                   ELSE Put(env0, LITELLM_MODEL, "gpt-4")
              ELSE env0
      env2 == IF LITELLM_TEMPERATURE \notin DOMAIN env1
              THEN Put(env1, LITELLM_TEMPERATURE, "0.1")
              ELSE env1
  IN IF OPENROUTER_API_KEY \notin DOMAIN env0 /\ OPENAI_API_KEY \notin DOMAIN env0
     THEN [exc |-> "RuntimeError", env |-> EmptyEnv]
     ELSE [exc |-> NoExc, env |-> env2]

\* ---------------------------------------------------------------- _find_node
common_paths == << Str("/usr/bin/node"), Str("/usr/local/bin/node"), Str("/opt/homebrew/bin/node") >>

\* What `which node` can do: print a path and exit 0, exit nonzero
\* (CalledProcessError under check=True), or fail to start (OSError).
WhichOutcomes ==
  { [outcome |-> "ok", stdout |-> Str("/usr/bin/node")],
    [outcome |-> "CalledProcessError", stdout |-> None],
    [outcome |-> "OSError", stdout |-> None] }

RECURSIVE FirstExisting(_, _, _)
FirstExisting(paths, i, existing) ==
  IF i > Len(paths) THEN None
  ELSE IF paths[i] \in existing THEN paths[i]
  ELSE FirstExisting(paths, i + 1, existing)

\* Faulty variant: _find_node ends without raising when no fallback path exists
\* (the function then returns None).
find_node_noraise(which, existing) ==
  IF which.outcome = "ok" THEN [exc |-> NoExc, value |-> which.stdout]
  ELSE IF which.outcome = "CalledProcessError"
  THEN [exc |-> NoExc, value |-> FirstExisting(common_paths, 1, existing)]
  ELSE [exc |-> which.outcome, value |-> None]

\* _find_node: [exc, value].  Only CalledProcessError is handled; any other
\* exception of subprocess.run leaves the function.
find_node(which, existing) ==
  IF which.outcome = "ok" THEN [exc |-> NoExc, value |-> which.stdout]
  ELSE IF which.outcome = "CalledProcessError"
  THEN LET p == FirstExisting(common_paths, 1, existing)
       IN IF p # None THEN [exc |-> NoExc, value |-> p]
          ELSE [exc |-> "RuntimeError", value |-> None]
  ELSE [exc |-> which.outcome, value |-> None]

\* ------------------------------------------------------- _find_tb_container_id
\* A line of the listing is the sequence of its whitespace-separated fields
\* (line.split()); a blank line has no field.
IsBlank(line) == Len(line) = 0

RECURSIVE LStrip(_)
LStrip(lines) ==
  IF lines = <<>> THEN <<>>
  ELSE IF IsBlank(Head(lines)) THEN LStrip(Tail(lines))
  ELSE lines

RECURSIVE RStrip(_)
RStrip(lines) ==
  IF lines = <<>> THEN <<>>
  ELSE IF IsBlank(lines[Len(lines)]) THEN RStrip(SubSeq(lines, 1, Len(lines) - 1))
  ELSE lines

\* proc.stdout.strip().splitlines(): blank lines at either end are dropped.
StripSplitlines(stdout) == RStrip(LStrip(stdout))

\* Faulty variant: the '_app_1' suffix is not recognised.
LineMatches_no_app(parts) ==
  \/ Contains(parts[2], Str("terminal-bench"))
  \/ EndsWith(parts[3], Str("_agent_1"))

\* The condition of line 322.
LineMatches(parts) ==
  LET image == parts[2]
      name == parts[3]
  IN \/ Contains(image, Str("terminal-bench"))
     \/ EndsWith(name, Str("_agent_1"))
     \/ EndsWith(name, Str("_app_1"))

\* The for loop of lines 315-323: the value returned from inside the loop,
\* or None when the loop ends.
RECURSIVE LoopReturn(_, _)
LoopReturn(lines, i) ==
  IF i > Len(lines) THEN None
  ELSE LET parts == lines[i]
       IN IF Len(parts) < 3 THEN LoopReturn(lines, i + 1)
          ELSE IF LineMatches(parts) THEN parts[3]
          ELSE LoopReturn(lines, i + 1)

\* Faulty variant: the fallback takes the last listed container.
find_tb_container_id_last_fallback(docker) ==
  IF docker.outcome # "ok" THEN None
  ELSE LET lines == StripSplitlines(docker.stdout)
           hit == LoopReturn(lines, 1)
       IN IF hit # None THEN hit
          ELSE IF lines # <<>> THEN lines[Len(lines)][1]
          ELSE None

\* _find_tb_container_id: never raises (except Exception: return None).
find_tb_container_id(docker) ==
  IF docker.outcome # "ok" THEN None
  ELSE LET lines == StripSplitlines(docker.stdout)
           hit == LoopReturn(lines, 1)
       IN IF hit # None THEN hit
          ELSE IF lines # <<>> THEN lines[1][1]
          ELSE None

\* ------------------------------------------------------------ agent process
agent_script == Str("dist/index.js")

\* What the agent process can do once subprocess.run is called: fail to
\* start (OSError), or run for `duration` seconds and exit.
AgentOutputs == { [stdout |-> "", stderr |-> ""], [stdout |-> "out", stderr |-> "err"] }
AgentBehaviours ==
  { [starts |-> st, duration |-> d, returncode |-> rc, stdout |-> o.stdout, stderr |-> o.stderr] :
      st \in BOOLEAN, d \in {1, AgentTimeout + 1}, rc \in 0..MaxReturnCode, o \in AgentOutputs }

NoProc == [returncode |-> -1, stdout |-> "", stderr |-> ""]

\* subprocess.run(cmd, ..., capture_output=True, text=True, timeout=3600):
\* [exc, proc].
subprocess_run(b) ==
  IF ~b.starts THEN [exc |-> "OSError", proc |-> NoProc]
  ELSE IF b.duration > AgentTimeout THEN [exc |-> "TimeoutExpired", proc |-> NoProc]
  ELSE [exc |-> NoExc,
        proc |-> [returncode |-> b.returncode, stdout |-> b.stdout, stderr |-> b.stderr]]

\* cmd of the session-integrated path.
session_cmd(node, container, instr) ==
  << node, agent_script, Str("run"), Str("--container"), container, instr >>
\* Faulty variant: the marker is not injected.
session_env_nomarker(env) == env
\* env= of the session-integrated path: {**env, 'TERMINAL_BENCH_SESSION': 'true'}.
session_env(env) == Put(env, TERMINAL_BENCH_SESSION, "true")
\* cmd of the direct path.
direct_cmd(node, instr) == << node, agent_script, Str("run"), instr >>

\* failure_mode of the AgentResult built after the process completed.
session_failure_mode(returncode) ==
  IF returncode = 0 THEN "NONE" ELSE "UNKNOWN_AGENT_ERROR"
\* Faulty variant: the direct path reports success whatever the exit code.
direct_failure_mode_always_none(returncode) == "NONE"
direct_failure_mode(returncode) ==
  IF returncode = 0 THEN "NONE" ELSE "UNKNOWN_AGENT_ERROR"

\* ------------------------------------------------------- exception handlers
\* Faulty variant: perform_task without its two except clauses.
perform_task_except_reraise(e) == Raises(e)

\* perform_task: except subprocess.TimeoutExpired / except Exception.
perform_task_except(e) ==
  IF e = "TimeoutExpired" THEN Returns(AgentResult("AGENT_TIMEOUT"))
  ELSE Returns(AgentResult("UNKNOWN_AGENT_ERROR"))

\* _run_with_terminal_bench_session: except Exception (the only handler).
session_except(e) == Returns(AgentResult("UNKNOWN_AGENT_ERROR"))

\* _run_direct_execution: both handlers re-raise.
direct_except(e) == Raises(e)

\* Faulty variant: the snapshot call without its try/except.
snapshot_reraise(e) == e

\* try: self._capture_git_metadata(...) except Exception: print a warning.
\* The exception that leaves the try statement.
snapshot_except(e) == NoExc

\* An exception raised inside a path's try block, as seen by the harness:
\* the path's handler first, then perform_task's if it is raised again.
Through(inner) ==
  IF inner.kind = "raise" THEN perform_task_except(inner.exc) ELSE inner

\* ----------------------------------------------------- _capture_git_metadata
NoLoggingDir == "None"
LoggingDirs == {NoLoggingDir, "/runs/1"}

STDOUT_LOG == "typescript_agent_stdout.log"
STDERR_LOG == "typescript_agent_stderr.log"
git_files == << "git-status.txt", "git-diff.patch", "git-diff-staged.patch", "git-head.txt" >>

\* The result of one `git ...` query: it cannot be started, or it completes
\* (with any exit code: check= is not passed) with some output.
GitResults ==
  { [exc |-> NoExc, returncode |-> 0, stdout |-> "o", stderr |-> "e"],
    [exc |-> NoExc, returncode |-> 128, stdout |-> "", stderr |-> "e"],
    [exc |-> "OSError", returncode |-> 0, stdout |-> "", stderr |-> ""] }
\* A query that succeeds and prints nothing (`git diff` of a clean tree).
GitQuiet == [exc |-> NoExc, returncode |-> 0, stdout |-> "", stderr |-> ""]

\* What the file system and git can do during one snapshot: the directory
\* cannot be created; or some query cannot be started; or all four complete
\* and the fail_at-th write fails (0: none).
SnapshotBehaviours ==
  { [mkdir_ok |-> FALSE, git |-> [k \in 1..4 |-> CHOOSE g \in GitResults : g.exc = NoExc],
     fail_at |-> 0] }
  \cup { [mkdir_ok |-> TRUE, git |-> g, fail_at |-> 0] :
            g \in { h \in [1..4 -> GitResults] : \E k \in 1..4 : h[k].exc # NoExc } }
  \cup { [mkdir_ok |-> TRUE, git |-> g, fail_at |-> f] :
            g \in { h \in [1..4 -> GitResults] : \A k \in 1..4 : h[k].exc = NoExc },
            f \in 0..4 }

\* Faulty variant: the error output is never used.
OrElse_stdout_only(x, y) == x

\* x or y or ''
OrElse(x, y) == IF x # "" THEN x ELSE IF y # "" THEN y ELSE ""

NoFiles == [n \in {} |-> ""]
WriteFile(fs, name, text) ==
  [n \in (DOMAIN fs) \cup {name} |-> IF n = name THEN text ELSE fs[n]]

RECURSIVE WriteAll(_, _, _, _, _)
\* The four write_text calls in order; the k-th fails when fail_at = k.
WriteAll(fs, ev, git, k, fail_at) ==
  IF k > Len(git_files) THEN [exc |-> NoExc, files |-> fs, events |-> ev]
  ELSE IF k = fail_at THEN [exc |-> "OSError", files |-> fs, events |-> ev]
  ELSE WriteAll(WriteFile(fs, git_files[k], OrElse(git[k].stdout, git[k].stderr)),
                Append(ev, git_files[k]), git, k + 1, fail_at)

\* Faulty variant: the `if not logging_dir: return` guard is missing.
capture_git_metadata_noguard(dir, fs, ev, mkdir_ok, git, fail_at) ==
  IF ~mkdir_ok THEN [exc |-> "OSError", files |-> fs, events |-> Append(ev, "mkdir")]
  ELSE LET bad == { k \in 1..Len(git) : git[k].exc # NoExc }
           ev1 == Append(ev, "mkdir")
       IN IF bad # {}
          THEN LET k == CHOOSE i \in bad : \A j \in bad : i <= j
               IN [exc |-> git[k].exc, files |-> fs,
                   events |-> ev1 \o [i \in 1..k |-> "git"]]
          ELSE WriteAll(fs, ev1 \o [i \in 1..Len(git) |-> "git"], git, 1, fail_at)

\* _capture_git_metadata(logging_dir): [exc, files, events].  mkdir_ok: the
\* directory can be created; git: the four query results; fail_at: the write
\* that fails (0: none).
capture_git_metadata(dir, fs, ev, mkdir_ok, git, fail_at) ==
  IF dir = NoLoggingDir THEN [exc |-> NoExc, files |-> fs, events |-> ev]
  ELSE IF ~mkdir_ok THEN [exc |-> "OSError", files |-> fs, events |-> Append(ev, "mkdir")]
  ELSE LET bad == { k \in 1..Len(git) : git[k].exc # NoExc }
           ev1 == Append(ev, "mkdir")
       IN IF bad # {}
          THEN LET k == CHOOSE i \in bad : \A j \in bad : i <= j
               IN [exc |-> git[k].exc, files |-> fs,
                   events |-> ev1 \o [i \in 1..k |-> "git"]]
          ELSE WriteAll(fs, ev1 \o [i \in 1..Len(git) |-> "git"], git, 1, fail_at)

\* ------------------------------------------------------------------ state
VARIABLES
  pc,               \* where the harness / the wrapper is
  environ,          \* os.environ
  node_executable,  \* self.node_executable
  instruction,      \* perform_task's arguments
  has_send_keys,    \*   hasattr(session, 'send_keys')
  logging_dir,
  env,              \* the mapping _setup_environment returned
  listing,          \* what `docker ps` did, until the agent is started
  container_id,     \* the value _find_tb_container_id returned
  cmd,              \* argv of the agent process that was started
  proc_env,         \* env= of the agent process that was started
  agent_exc,        \* the exception subprocess.run raised for the agent
  proc,             \* the CompletedProcess of the agent
  logs_exc,         \* the exception raised while writing the two process logs
  snapshot_exc,     \* the exception raised inside _capture_git_metadata
  files,            \* files written under logging_dir in this call
  events,           \* subprocesses started and files written in this call, in order
  result,           \* the AgentResult perform_task returned
  raised,           \* the exception that reached the harness
  argv,             \* sys.argv when the file is run as a script, else empty
  exit_status,      \* the exit status of the script, -1 while there is none
  snapshot_run      \* SpecSnapshot: what git and the file system do

vars == << pc, environ, node_executable, instruction, has_send_keys, logging_dir,
           env, listing, container_id, cmd, proc_env, agent_exc, proc, logs_exc,
           snapshot_exc, files, events, result, raised, argv, exit_status,
           snapshot_run >>

call_vars == << instruction, has_send_keys, logging_dir >>
agent_vars == << cmd, proc_env, agent_exc, proc >>
main_vars == << argv, exit_status >>

Instructions == { Str("fix the bug"), Str("--container") }

\* The fallback paths that exist on the machine.
ExistingSets == { {}, {common_paths[1], common_paths[3]} }

\* The output of `docker ps --format '{{.ID}} {{.Image}} {{.Names}}'`.
ListingLines ==
  { << Str("c1"), Str("nginx"), Str("web") >>,
    << Str("c2"), <<"ghcr.io/", "terminal-bench", "/t:1">>, Str("db") >>,
    << Str("c3"), Str("node"), <<"task", "_agent_1">> >>,
    << Str("c4"), Str("python"), <<"task", "_app_1">> >>,
    << Str("c5"), Str("redis") >>,
    << >> }
RECURSIVE SeqsUpTo(_, _)
SeqsUpTo(S, n) ==
  IF n = 0 THEN { <<>> }
  ELSE LET shorter == SeqsUpTo(S, n - 1)
       IN shorter \cup { Append(q, x) : q \in shorter, x \in S }
DockerOutcomes ==
  { [outcome |-> "ok", stdout |-> l] : l \in SeqsUpTo(ListingLines, MaxLines) }
    \cup { [outcome |-> "CalledProcessError", stdout |-> <<>>],
           [outcome |-> "OSError", stdout |-> <<>>] }
NoListing == [outcome |-> "none", stdout |-> <<>>]

\* sys.argv of `python terminal_bench_wrapper.py ...`: no task, one task, two.
NoArgv == << >>
script_name == Str("terminal_bench_wrapper.py")
Argvs ==
  { << script_name >> }
    \cup { << script_name, t >> : t \in Instructions }
    \cup { << script_name, t, Str("extra") >> : t \in Instructions }

NoSnapshotRun == [mkdir_ok |-> FALSE, git |-> << >>, fail_at |-> 0]

Init ==
  /\ pc = "new"
  /\ environ \in AmbientEnvs
  /\ node_executable = None
  /\ instruction = None
  /\ has_send_keys = FALSE
  /\ logging_dir = NoLoggingDir
  /\ env = EmptyEnv
  /\ listing = NoListing
  /\ container_id = None
  /\ cmd = <<>>
  /\ proc_env = EmptyEnv
  /\ agent_exc = NoExc
  /\ proc = NoProc
  /\ logs_exc = NoExc
  /\ snapshot_exc = NoExc
  /\ files = NoFiles
  /\ events = <<>>
  /\ result = NoResult
  /\ raised = NoExc
  /\ argv = NoArgv
  /\ exit_status = -1
  /\ snapshot_run = NoSnapshotRun

\* perform_task ends: it returns an AgentResult or an exception leaves it.
Finish(outcome) ==
  /\ pc' = IF outcome.kind = "return" THEN "returned" ELSE "raised"
  /\ result' = outcome.value
  /\ raised' = outcome.exc

\* Faulty variant: the script always exits with status 0.
exit_code_always_zero(r) == 0

\* sys.exit(0 if result.failure_mode == FailureMode.NONE else 1)
exit_code(r) == IF r.failure_mode = "NONE" THEN 0 ELSE 1

\* The __main__ block up to the construction of the wrapper: the usage check.
Main ==
  /\ pc = "new"
  /\ argv = NoArgv
  /\ \E a \in Argvs :
       /\ argv' = a
       /\ IF Len(a) # 2
          THEN /\ pc' = "exited"
               /\ exit_status' = 1
          ELSE UNCHANGED << pc, exit_status >>
  /\ UNCHANGED << snapshot_run, environ, node_executable, call_vars, env, listing,
                  container_id, agent_vars, logs_exc, snapshot_exc, files, events,
                  result, raised >>

\* The __main__ block after perform_task: sys.exit on the failure mode; an
\* exception that nothing catches ends the interpreter with status 1.
MainExit ==
  /\ argv # NoArgv
  /\ pc \in {"returned", "raised", "ctor_raised"}
  /\ exit_status' = IF pc = "returned" THEN exit_code(result) ELSE 1
  /\ pc' = "exited"
  /\ UNCHANGED << argv, snapshot_run, environ, node_executable, call_vars, env,
                  listing, container_id, agent_vars, logs_exc, snapshot_exc, files,
                  events, result, raised >>

\* TypeScriptAgentWrapper(**kwargs): _find_node, load_dotenv, _build_agent.
\* The script constructs it without arguments.
Construct ==
  /\ pc = "new"
  /\ \E which \in WhichOutcomes, existing \in ExistingSets, dotenv \in DotenvFiles,
        no_rebuild \in BOOLEAN, script_exists \in BOOLEAN,
        build \in {NoExc, "CalledProcessError", "OSError"} :
       LET node == find_node(which, existing)
           should_build == ~no_rebuild \/ argv # NoArgv
           \* _build_agent turns CalledProcessError into RuntimeError
           build_exc == IF should_build /\ ~script_exists
                        THEN (IF build = "CalledProcessError" THEN "RuntimeError" ELSE build)
                        ELSE NoExc
       IN IF node.exc # NoExc
          THEN /\ pc' = "ctor_raised"
               /\ raised' = node.exc
               /\ UNCHANGED << environ, node_executable >>
          ELSE /\ node_executable' = node.value
               /\ environ' = load_dotenv(environ, dotenv)
               /\ raised' = build_exc
               /\ pc' = IF build_exc = NoExc THEN "ready" ELSE "ctor_raised"
  /\ UNCHANGED << main_vars, snapshot_run, call_vars, env, listing, container_id, agent_vars, logs_exc,
                  snapshot_exc, files, events, result >>

\* The harness calls perform_task(instruction, session, logging_dir), any
\* number of times; the script calls perform_task(sys.argv[1], MockSession())
\* once, and MockSession has get_cwd only.
PerformTask ==
  /\ pc = "ready" \/ (pc = "returned" /\ argv = NoArgv)
  /\ IF argv # NoArgv
     THEN /\ instruction' = argv[2]
          /\ has_send_keys' = FALSE
          /\ logging_dir' = NoLoggingDir
     ELSE /\ instruction' \in Instructions
          /\ has_send_keys' \in BOOLEAN
          /\ logging_dir' \in LoggingDirs
  /\ pc' = "setup_environment"
  /\ env' = EmptyEnv
  /\ listing' = NoListing
  /\ container_id' = None
  /\ cmd' = <<>>
  /\ proc_env' = EmptyEnv
  /\ agent_exc' = NoExc
  /\ proc' = NoProc
  /\ logs_exc' = NoExc
  /\ snapshot_exc' = NoExc
  /\ files' = NoFiles
  /\ events' = <<>>
  /\ result' = NoResult
  /\ raised' = NoExc
  /\ UNCHANGED << main_vars, snapshot_run, environ, node_executable >>

\* Faulty variant: the session-integrated path is taken for every session.
select_path_always_session(send_keys) == "find_container"

\* The branch on hasattr(session, 'send_keys').
select_path(send_keys) == IF send_keys THEN "find_container" ELSE "direct_run"

\* Lines 122-133: env = self._setup_environment(), then the branch.
SetupEnvironment ==
  /\ pc = "setup_environment"
  /\ LET r == setup_environment(environ)
     IN /\ events' = Append(events, "setup_environment")
        /\ IF r.exc # NoExc
           THEN /\ Finish(perform_task_except(r.exc))
                /\ UNCHANGED env
           ELSE /\ env' = r.env
                /\ pc' = select_path(has_send_keys)
                /\ UNCHANGED << result, raised >>
  /\ UNCHANGED << main_vars, snapshot_run, environ, node_executable, call_vars, listing, container_id,
                  agent_vars, logs_exc, snapshot_exc, files >>

\* Faulty variant: the `if not container_id` return is missing.
container_missing_never(cid) == FALSE

\* if not container_id:
container_missing(cid) == Falsy(cid)

\* Lines 171-178: container discovery and the `if not container_id` return.
FindContainer ==
  /\ pc = "find_container"
  /\ \E docker \in DockerOutcomes :
       LET cid == find_tb_container_id(docker)
       IN /\ listing' = docker
          /\ container_id' = cid
          /\ events' = Append(events, "docker_ps")
          /\ IF container_missing(cid)
             THEN Finish(Returns(AgentResult("UNKNOWN_AGENT_ERROR")))
             ELSE /\ pc' = "session_run"
                  /\ UNCHANGED << result, raised >>
  /\ UNCHANGED << main_vars, snapshot_run, environ, node_executable, call_vars, env, agent_vars,
                  logs_exc, snapshot_exc, files >>

\* Faulty variant: the agent process is started a second time.
spawn_agent_retry(ev) == Append(Append(ev, "agent"), "agent")

\* One subprocess.run of the agent per path, outside any loop.
spawn_agent(ev) == Append(ev, "agent")

\* Lines 183-200: the agent process of the session-integrated path.
SessionRun ==
  /\ pc = "session_run"
  /\ \E b \in AgentBehaviours :
       LET r == subprocess_run(b)
       IN /\ cmd' = session_cmd(node_executable, container_id, instruction)
          /\ proc_env' = session_env(env)
          /\ events' = spawn_agent(events)
          /\ agent_exc' = r.exc
          /\ proc' = r.proc
          /\ listing' = NoListing
          /\ IF r.exc # NoExc
             THEN Finish(Through(session_except(r.exc)))
             ELSE /\ pc' = "session_snapshot"
                  /\ UNCHANGED << result, raised >>
  /\ UNCHANGED << main_vars, snapshot_run, environ, node_executable, call_vars, env, container_id,
                  logs_exc, snapshot_exc, files >>

\* Lines 207-219: the snapshot in its own try, then the AgentResult.
SessionSnapshot ==
  /\ pc = "session_snapshot"
  /\ \E sb \in SnapshotBehaviours :
       LET success == session_failure_mode(proc.returncode)
           s == capture_git_metadata(logging_dir, files,
                                     Append(events, "capture_git_metadata"),
                                     sb.mkdir_ok, sb.git, sb.fail_at)
           e == IF s.exc # NoExc THEN snapshot_except(s.exc) ELSE NoExc
       IN /\ files' = s.files
          /\ events' = s.events
          /\ snapshot_exc' = s.exc
          /\ IF e # NoExc
             THEN Finish(Through(session_except(e)))
             ELSE Finish(Returns(AgentResult(success)))
  /\ UNCHANGED << main_vars, snapshot_run, environ, node_executable, call_vars, env, listing, container_id,
                  agent_vars, logs_exc >>

\* Lines 240-261: the agent process of the direct path.
DirectRun ==
  /\ pc = "direct_run"
  /\ \E b \in AgentBehaviours :
       LET r == subprocess_run(b)
       IN /\ cmd' = direct_cmd(node_executable, instruction)
          /\ proc_env' = env
          /\ events' = spawn_agent(events)
          /\ agent_exc' = r.exc
          /\ proc' = r.proc
          /\ IF r.exc # NoExc
             THEN Finish(Through(direct_except(r.exc)))
             ELSE /\ pc' = "direct_logs"
                  /\ UNCHANGED << result, raised >>
  /\ UNCHANGED << main_vars, snapshot_run, environ, node_executable, call_vars, env, listing, container_id,
                  logs_exc, snapshot_exc, files >>

\* Faulty variant: both log files receive the standard output.
write_process_logs_same_stream(dir, p, fs, ev, fail_at) ==
  IF dir = NoLoggingDir THEN [exc |-> NoExc, files |-> fs, events |-> ev]
  ELSE IF fail_at = 1 THEN [exc |-> "OSError", files |-> fs, events |-> Append(ev, "mkdir")]
  ELSE LET ev1 == Append(ev, "mkdir")
           fs2 == WriteFile(fs, STDOUT_LOG, p.stdout)
           ev2 == Append(ev1, STDOUT_LOG)
       IN IF fail_at = 2 THEN [exc |-> "OSError", files |-> fs, events |-> ev1]
          ELSE IF fail_at = 3 THEN [exc |-> "OSError", files |-> fs2, events |-> ev2]
          ELSE [exc |-> NoExc, files |-> WriteFile(fs2, STDERR_LOG, p.stdout),
                events |-> Append(ev2, STDERR_LOG)]

\* Lines 264-272: [exc, files, events]; fail_at: 0 nothing fails, 1 mkdir,
\* 2 the stdout log, 3 the stderr log.
write_process_logs(dir, p, fs, ev, fail_at) ==
  IF dir = NoLoggingDir THEN [exc |-> NoExc, files |-> fs, events |-> ev]
  ELSE IF fail_at = 1 THEN [exc |-> "OSError", files |-> fs, events |-> Append(ev, "mkdir")]
  ELSE LET ev1 == Append(ev, "mkdir")
           fs2 == WriteFile(fs, STDOUT_LOG, p.stdout)
           ev2 == Append(ev1, STDOUT_LOG)
       IN IF fail_at = 2 THEN [exc |-> "OSError", files |-> fs, events |-> ev1]
          ELSE IF fail_at = 3 THEN [exc |-> "OSError", files |-> fs2, events |-> ev2]
          ELSE [exc |-> NoExc, files |-> WriteFile(fs2, STDERR_LOG, p.stderr),
                events |-> Append(ev2, STDERR_LOG)]

DirectLogs ==
  /\ pc = "direct_logs"
  /\ \E fail_at \in 0..3 :
       LET w == write_process_logs(logging_dir, proc, files, events, fail_at)
       IN /\ files' = w.files
          /\ events' = w.events
          /\ logs_exc' = w.exc
          /\ IF w.exc # NoExc
             THEN Finish(Through(direct_except(w.exc)))
             ELSE /\ pc' = "direct_snapshot"
                  /\ UNCHANGED << result, raised >>
  /\ UNCHANGED << main_vars, snapshot_run, environ, node_executable, call_vars, env, listing, container_id,
                  agent_vars, snapshot_exc >>

\* Lines 275-297: the snapshot in its own try, then the AgentResult.
DirectSnapshot ==
  /\ pc = "direct_snapshot"
  /\ \E sb \in SnapshotBehaviours :
       LET success == direct_failure_mode(proc.returncode)
           s == capture_git_metadata(logging_dir, files,
                                     Append(events, "capture_git_metadata"),
                                     sb.mkdir_ok, sb.git, sb.fail_at)
           e == IF s.exc # NoExc THEN snapshot_except(s.exc) ELSE NoExc
       IN /\ files' = s.files
          /\ events' = s.events
          /\ snapshot_exc' = s.exc
          /\ IF e # NoExc
             THEN Finish(Through(direct_except(e)))
             ELSE Finish(Returns(AgentResult(success)))
  /\ UNCHANGED << main_vars, snapshot_run, environ, node_executable, call_vars, env, listing, container_id,
                  agent_vars, logs_exc >>

Next ==
  \/ Main
  \/ MainExit
  \/ Construct
  \/ PerformTask
  \/ SetupEnvironment
  \/ FindContainer
  \/ SessionRun
  \/ SessionSnapshot
  \/ DirectRun
  \/ DirectLogs
  \/ DirectSnapshot

Spec == Init /\ [][Next]_vars

\* ------------------------------------------------ _capture_git_metadata alone
\* One call of _capture_git_metadata(logging_dir) on an empty logging
\* directory, for every behaviour of git and of the file system.
SnapshotRuns ==
  { [mkdir_ok |-> m, git |-> g, fail_at |-> f] :
      m \in BOOLEAN, g \in [1..4 -> GitResults \cup {GitQuiet}], f \in 0..4 }

InitSnapshot ==
  /\ pc = "capture_git_metadata"
  /\ logging_dir \in LoggingDirs
  /\ snapshot_run \in SnapshotRuns
  /\ environ = EmptyEnv
  /\ node_executable = None
  /\ instruction = None
  /\ has_send_keys = FALSE
  /\ env = EmptyEnv
  /\ listing = NoListing
  /\ container_id = None
  /\ cmd = <<>>
  /\ proc_env = EmptyEnv
  /\ agent_exc = NoExc
  /\ proc = NoProc
  /\ logs_exc = NoExc
  /\ snapshot_exc = NoExc
  /\ files = NoFiles
  /\ events = <<>>
  /\ result = NoResult
  /\ raised = NoExc
  /\ argv = NoArgv
  /\ exit_status = -1

CaptureGitMetadata ==
  /\ pc = "capture_git_metadata"
  /\ LET s == capture_git_metadata(logging_dir, files, events, snapshot_run.mkdir_ok,
                                   snapshot_run.git, snapshot_run.fail_at)
     IN /\ files' = s.files
        /\ events' = s.events
        /\ snapshot_exc' = s.exc
  /\ pc' = "captured"
  /\ UNCHANGED << main_vars, snapshot_run, environ, node_executable, call_vars, env,
                  listing, container_id, agent_vars, logs_exc, result, raised >>

NextSnapshot == CaptureGitMetadata

SpecSnapshot == InitSnapshot /\ [][NextSnapshot]_vars

\* ------------------------------------------------------------------ claims
InCall ==
  pc \notin {"new", "ready", "ctor_raised", "exited", "capture_git_metadata", "captured"}
Returned == pc = "returned"
Happened(x) == \E i \in 1..Len(events) : events[i] = x
Count(x) == Cardinality({ i \in 1..Len(events) : events[i] = x })
\* Position of the first x in events (0: none).
First(x) ==
  IF Happened(x) THEN CHOOSE i \in 1..Len(events) :
                         events[i] = x /\ \A j \in 1..(i - 1) : events[j] # x
  ELSE 0
AgentCompleted == Happened("agent") /\ agent_exc = NoExc
ByExitCode == IF proc.returncode = 0 THEN "NONE" ELSE "UNKNOWN_AGENT_ERROR"
NoCredential ==
  OPENROUTER_API_KEY \notin DOMAIN environ /\ OPENAI_API_KEY \notin DOMAIN environ

\* C1: no exception leaves perform_task; a call that has returned has
\* returned one AgentResult whose failure mode is NONE, AGENT_TIMEOUT or
\* UNKNOWN_AGENT_ERROR and whose token counts are both 0, and no result
\* exists before the call returns.
C1_NoException ==
  /\ pc # "raised"
  /\ InCall => raised = NoExc
  /\ Returned =>
       /\ result.failure_mode \in FailureModes
       /\ result.total_input_tokens = 0
       /\ result.total_output_tokens = 0
  /\ (InCall /\ ~Returned) => result = NoResult
\* An exception was raised by the agent invocation on the direct path (where
\* it is re-raised to perform_task) and the call still returned a result.
C1_Witness ==
  /\ Returned /\ ~has_send_keys /\ agent_exc = "OSError"
  /\ result = AgentResult("UNKNOWN_AGENT_ERROR")

\* C2 (as claimed): on both paths, when subprocess.run raises TimeoutExpired
\* for the agent, perform_task returns AGENT_TIMEOUT with zero token counts.
C2_TimeoutOnBothPaths ==
  (Returned /\ agent_exc = "TimeoutExpired") => result = AgentResult("AGENT_TIMEOUT")

\* C3 (as claimed): whenever the agent process completed, the failure mode
\* returned is NONE for exit code 0 and UNKNOWN_AGENT_ERROR otherwise,
\* whatever happened while the logs and the snapshot were written.
C3_OnlyExitCode ==
  (Returned /\ AgentCompleted) => result.failure_mode = ByExitCode
\* C3 (amended): the same, except that a failure to write the process logs
\* on the direct path gives UNKNOWN_AGENT_ERROR whatever the exit code.
C3_ExitCodeUnlessLogsFail ==
  (Returned /\ AgentCompleted) =>
     result.failure_mode =
        (IF logs_exc # NoExc THEN "UNKNOWN_AGENT_ERROR" ELSE ByExitCode)
\* Exit code 0 with output on both streams and a failed snapshot: NONE.
C3_Witness ==
  /\ Returned /\ AgentCompleted /\ proc.returncode = 0
  /\ proc.stdout # "" /\ proc.stderr # ""
  /\ logging_dir # NoLoggingDir /\ logs_exc = NoExc /\ snapshot_exc # NoExc
  /\ result.failure_mode = "NONE"

\* C4: when os.environ holds neither credential, a call of perform_task
\* starts no subprocess and writes no file, on either session variant, and
\* it returns UNKNOWN_AGENT_ERROR.
C4_NoCredentialNoSideEffect ==
  (InCall /\ NoCredential) =>
     /\ pc \in {"setup_environment", "returned"}
     /\ \A i \in 1..Len(events) : events[i] = "setup_environment"
     /\ files = NoFiles
     /\ cmd = <<>>
     /\ listing = NoListing
     /\ Returned => result = AgentResult("UNKNOWN_AGENT_ERROR")
C4_Witness ==
  /\ NoCredential /\ Returned /\ has_send_keys /\ logging_dir # NoLoggingDir
  /\ result = AgentResult("UNKNOWN_AGENT_ERROR")

\* C5 (as claimed): in every call that started the agent process,
\* _capture_git_metadata is called after it, whatever the attempt's outcome.
C5_SnapshotAlwaysRuns ==
  (Returned /\ Happened("agent")) =>
     /\ Happened("capture_git_metadata")
     /\ First("agent") < First("capture_git_metadata")

\* C6: a failure inside _capture_git_metadata never changes the result: in
\* every call that reached the snapshot, whether it failed or not, the
\* result is the one the exit code gives, and nothing is raised.
C6_SnapshotNeverChangesResult ==
  (Returned /\ Happened("capture_git_metadata")) =>
     /\ result = AgentResult(ByExitCode)
     /\ raised = NoExc
C6_Witness ==
  /\ Returned /\ snapshot_exc # NoExc /\ proc.returncode = 0
  /\ ~has_send_keys
  /\ result = AgentResult("NONE")

\* C7: with send_keys, container discovery is attempted at most once, only
\* after _setup_environment succeeded, exactly once in a call that resolved
\* its environment and returned, and before the agent process; without
\* send_keys it is never attempted.
C7_DiscoveryOrder ==
  InCall =>
     /\ ~has_send_keys => Count("docker_ps") = 0
     /\ Count("docker_ps") <= 1
     /\ Happened("docker_ps") =>
          /\ env # EmptyEnv
          /\ First("setup_environment") = 1
          /\ First("docker_ps") = 2
     /\ (has_send_keys /\ Happened("agent")) =>
          /\ Count("docker_ps") = 1
          /\ First("docker_ps") < First("agent")
     /\ (has_send_keys /\ Returned /\ env # EmptyEnv) => Count("docker_ps") = 1
C7_Witness ==
  /\ Returned /\ has_send_keys /\ Happened("agent")
  /\ events[2] = "docker_ps" /\ events[3] = "agent"

\* The listing names no container: the command failed, or every line of its
\* output is blank.
ListsNoContainer ==
  \/ listing.outcome # "ok"
  \/ \A i \in 1..Len(listing.stdout) : Len(listing.stdout[i]) = 0

\* C8: on the session-integrated path, when the listing fails or lists no
\* container, discovery returns nothing; and whenever discovery returns
\* nothing, perform_task returns UNKNOWN_AGENT_ERROR with zero token counts
\* and the agent process is not started.
C8_NotFoundIsUnknownError ==
  /\ (InCall /\ Happened("docker_ps") /\ ~Happened("agent") /\ ListsNoContainer)
        => Falsy(container_id)
  /\ (InCall /\ Happened("docker_ps") /\ Falsy(container_id)) =>
        /\ Returned
        /\ result = AgentResult("UNKNOWN_AGENT_ERROR")
        /\ ~Happened("agent")
        /\ cmd = <<>>
C8_Witness ==
  /\ Returned /\ has_send_keys
  /\ listing = [outcome |-> "ok", stdout |-> <<>>]
  /\ result = AgentResult("UNKNOWN_AGENT_ERROR")

\* Lines of the listing with a name that ends in a recognised suffix.
HasSuffixName(line) ==
  /\ Len(line) >= 3
  /\ \/ EndsWith(line[3], <<"_agent_1">>)
     \/ EndsWith(line[3], <<"_app_1">>)
\* Lines the heuristic accepts: the suffix, or a terminal-bench image.
Recognised(line) ==
  /\ Len(line) >= 3
  /\ \/ HasSuffixName(line)
     \/ \E k \in 1..Len(line[2]) : line[2][k] = "terminal-bench"
SessionArgvCarries(c) ==
  /\ Len(cmd) = 6
  /\ cmd[4] = <<"--container">>
  /\ cmd[5] = c
  /\ cmd[6] = instruction

\* C9 (as claimed): when the listing contains a container whose name ends in
\* _agent_1 or _app_1, discovery selects that container's id (the first
\* field of its line), and that value follows --container.
C9_SelectsContainerId ==
  /\ (pc = "session_run" /\ \E i \in 1..Len(listing.stdout) : HasSuffixName(listing.stdout[i]))
        => \E i \in 1..Len(listing.stdout) :
              /\ HasSuffixName(listing.stdout[i])
              /\ container_id = listing.stdout[i][1]
  /\ (has_send_keys /\ Happened("agent")) => SessionArgvCarries(container_id)
\* C9 (amended): discovery selects the name (the third field) of the first
\* line, in listing order, that has a recognised suffix or a terminal-bench
\* image, and that value follows --container.
C9_SelectsFirstRecognisedName ==
  /\ (pc = "session_run" /\ \E i \in 1..Len(listing.stdout) : HasSuffixName(listing.stdout[i]))
        => \E i \in 1..Len(listing.stdout) :
              /\ Recognised(listing.stdout[i])
              /\ \A j \in 1..(i - 1) : ~Recognised(listing.stdout[j])
              /\ container_id = listing.stdout[i][3]
  /\ (has_send_keys /\ Happened("agent")) => SessionArgvCarries(container_id)
C9_Witness ==
  /\ has_send_keys /\ Happened("agent")
  /\ SessionArgvCarries(<<"task", "_app_1">>)

\* Construction ended without a node executable.
NodeNotFound == pc \notin {"new", "exited"} /\ node_executable = None

Resolved == Happened("setup_environment") /\ ~NoCredential
OnlyOpenRouter ==
  OPENROUTER_API_KEY \in DOMAIN environ /\ OPENAI_API_KEY \notin DOMAIN environ
OnlyOpenAI ==
  OPENAI_API_KEY \in DOMAIN environ /\ OPENROUTER_API_KEY \notin DOMAIN environ
ModelIs(m) == LITELLM_MODEL \in DOMAIN env /\ env[LITELLM_MODEL] = m

\* C11: with exactly one credential and no LITELLM_MODEL, the resolved
\* environment carries anthropic/claude-3.5-sonnet for OpenRouter alone and
\* gpt-4 for OpenAI alone; an absent LITELLM_TEMPERATURE becomes 0.1.
C11_DefaultModelAndTemperature ==
  Resolved =>
    /\ (LITELLM_MODEL \notin DOMAIN environ /\ OnlyOpenRouter)
          => ModelIs("anthropic/claude-3.5-sonnet")
    /\ (LITELLM_MODEL \notin DOMAIN environ /\ OnlyOpenAI) => ModelIs("gpt-4")
    /\ LITELLM_TEMPERATURE \notin DOMAIN environ
          => /\ LITELLM_TEMPERATURE \in DOMAIN env
             /\ env[LITELLM_TEMPERATURE] = "0.1"
C11_Witness ==
  /\ Happened("agent") /\ OnlyOpenAI
  /\ LITELLM_MODEL \notin DOMAIN environ
  /\ LITELLM_TEMPERATURE \notin DOMAIN environ
  /\ proc_env[LITELLM_MODEL] = "gpt-4"

\* The direct path with a logging directory, after the agent completed.
DirectLogged ==
  /\ InCall /\ ~has_send_keys /\ logging_dir # NoLoggingDir
  /\ AgentCompleted
BothLogsWritten ==
  /\ {STDOUT_LOG, STDERR_LOG} \subseteq DOMAIN files
  /\ files[STDOUT_LOG] = proc.stdout
  /\ files[STDERR_LOG] = proc.stderr

\* C12 (as claimed): on the direct path with a logging directory, whenever
\* the agent process completed, a call that returned has written both
\* process log files with the captured streams, and returns NONE with zero
\* token counts after exit code 0.
C12_LogsAlwaysWritten ==
  (DirectLogged /\ Returned) =>
     /\ BothLogsWritten
     /\ proc.returncode = 0 => result = AgentResult("NONE")
\* C12 (amended): unless a log write fails, both files are written with the
\* captured streams before the snapshot starts and before there is a result,
\* and exit code 0 returns NONE; when a log write fails the call returns
\* UNKNOWN_AGENT_ERROR and the snapshot does not run.
C12_LogsBeforeResult ==
  DirectLogged =>
     /\ pc = "direct_snapshot" => (BothLogsWritten /\ result = NoResult)
     /\ (Returned /\ logs_exc = NoExc) =>
           /\ BothLogsWritten
           /\ First(STDOUT_LOG) < First(STDERR_LOG)
           /\ First(STDERR_LOG) < First("capture_git_metadata")
           /\ proc.returncode = 0 => result = AgentResult("NONE")
     /\ (Returned /\ logs_exc # NoExc) =>
           /\ ~BothLogsWritten
           /\ ~Happened("capture_git_metadata")
           /\ result = AgentResult("UNKNOWN_AGENT_ERROR")
C12_Witness ==
  /\ DirectLogged /\ Returned /\ logs_exc = NoExc
  /\ proc.returncode # 0 /\ proc.stderr = "err"
  /\ BothLogsWritten

\* C13: the agent process is started at most once per call of perform_task,
\* and when that one start ends in a timeout or an exception the call
\* returns at once with a failure: nothing is started or written after it.
C13_SpawnedAtMostOnce ==
  /\ Count("agent") <= 1
  /\ (Returned /\ Happened("agent") /\ agent_exc # NoExc) =>
        /\ events[Len(events)] = "agent"
        /\ result.failure_mode # "NONE"
  /\ (Returned /\ AgentCompleted /\ logs_exc = NoExc) =>
        result.failure_mode = ByExitCode
C13_Witness ==
  /\ Returned /\ Count("agent") = 1
  /\ agent_exc = "TimeoutExpired"
  /\ result.failure_mode = "AGENT_TIMEOUT"

\* C14: the script, run with one task argument, exits with status 0 exactly
\* when the AgentResult has failure mode NONE and with 1 for AGENT_TIMEOUT
\* and UNKNOWN_AGENT_ERROR; its session has no send_keys, so the direct
\* path is taken and no container is looked for.
C14_ExitStatus ==
  /\ (pc = "exited" /\ Len(argv) = 2 /\ result # NoResult) =>
        /\ exit_status = 0 <=> result.failure_mode = "NONE"
        /\ result.failure_mode \in {"AGENT_TIMEOUT", "UNKNOWN_AGENT_ERROR"}
              => exit_status = 1
  /\ (argv # NoArgv /\ Happened("setup_environment")) =>
        /\ ~has_send_keys
        /\ ~Happened("docker_ps")
        /\ Happened("agent") => cmd = direct_cmd(node_executable, argv[2])
C14_Witness ==
  /\ pc = "exited" /\ Len(argv) = 2
  /\ result.failure_mode = "AGENT_TIMEOUT"
  /\ exit_status = 1

\* The listing of this call is still known: discovery ran, no agent yet.
Discovered == InCall /\ Happened("docker_ps") /\ ~Happened("agent")
Listed == { i \in 1..Len(listing.stdout) : Len(listing.stdout[i]) > 0 }
Matching == { i \in 1..Len(listing.stdout) : Recognised(listing.stdout[i]) }
Lowest(S) == CHOOSE i \in S : \A j \in S : i <= j

\* C15: discovery never raises; it takes the first line, in listing order,
\* with a terminal-bench image or a recognised name suffix; only when no
\* line matches it takes the first listed container's id; it finds nothing
\* exactly when the listing fails or lists no container.
C15_DiscoveryPriority ==
  Discovered =>
     /\ raised = NoExc /\ pc \in {"session_run", "returned"}
     /\ Falsy(container_id) <=> ListsNoContainer
     /\ (listing.outcome = "ok" /\ Matching # {})
           => container_id = listing.stdout[Lowest(Matching)][3]
     /\ (listing.outcome = "ok" /\ Matching = {} /\ Listed # {})
           => container_id = listing.stdout[Lowest(Listed)][1]
C15_Witness ==
  /\ Discovered /\ listing.outcome = "ok"
  /\ Len(listing.stdout) = 2
  /\ Matching = {} /\ Listed = {1, 2}
  /\ container_id = listing.stdout[1][1]
  /\ listing.stdout[2][1] # listing.stdout[1][1]

\* C16: the session-integrated path starts
\* [node, script, 'run', '--container', container, instruction] with the
\* resolved environment plus TERMINAL_BENCH_SESSION=true; the direct path
\* starts [node, script, 'run', instruction] with exactly the resolved
\* environment; the instruction is the last argument, as given.
C16_CommandAndEnvironment ==
  (InCall /\ Happened("agent")) =>
     /\ cmd[Len(cmd)] = instruction
     /\ IF has_send_keys
        THEN /\ cmd = << node_executable, <<"dist/index.js">>, <<"run">>,
                        <<"--container">>, container_id, instruction >>
             /\ DOMAIN proc_env = DOMAIN env \cup {TERMINAL_BENCH_SESSION}
             /\ proc_env[TERMINAL_BENCH_SESSION] = "true"
             /\ \A k \in DOMAIN env : proc_env[k] = env[k]
        ELSE /\ cmd = << node_executable, <<"dist/index.js">>, <<"run">>, instruction >>
             /\ proc_env = env
             /\ TERMINAL_BENCH_SESSION \notin DOMAIN proc_env
C16_Witness ==
  /\ InCall /\ Happened("agent") /\ has_send_keys
  /\ instruction = <<"--container">>
  /\ Len(cmd) = 6 /\ cmd[6] = <<"--container">>
  /\ proc_env[TERMINAL_BENCH_SESSION] = "true"

SnapshotNames == { git_files[k] : k \in 1..Len(git_files) }

\* C17: the files written under the logging directory are among the six
\* fixed names; the two process logs are written on the direct path only,
\* the four snapshot files on either path; without a logging directory no
\* file is written and no directory is created.
C17_FilesWritten ==
  /\ DOMAIN files \subseteq {STDOUT_LOG, STDERR_LOG} \cup SnapshotNames
  /\ has_send_keys => DOMAIN files \subseteq SnapshotNames
  /\ (Returned /\ logging_dir # NoLoggingDir /\ Happened("capture_git_metadata")
        /\ snapshot_exc = NoExc) => SnapshotNames \subseteq DOMAIN files
  /\ logging_dir = NoLoggingDir =>
        /\ files = NoFiles
        /\ ~Happened("mkdir")
        /\ \A n \in {STDOUT_LOG, STDERR_LOG} \cup SnapshotNames : ~Happened(n)
C17_Witness ==
  /\ Returned /\ has_send_keys /\ logging_dir # NoLoggingDir
  /\ DOMAIN files = SnapshotNames

\* One call of _capture_git_metadata with a logging directory ended.
Captured == pc = "captured" /\ logging_dir # NoLoggingDir
NotStarted == { k \in 1..4 : snapshot_run.git[k].exc # NoExc }
Output(k) ==
  IF snapshot_run.git[k].stdout # "" THEN snapshot_run.git[k].stdout
  ELSE snapshot_run.git[k].stderr

\* C18 (as claimed): with a logging directory that can be written, the four
\* files are all written whatever each query did, and the file of a query
\* that ran holds its standard output, or its error output when the
\* standard output is empty.
C18_QueriesIndependent ==
  (Captured /\ snapshot_run.mkdir_ok /\ snapshot_run.fail_at = 0) =>
     \A k \in 1..4 :
        /\ git_files[k] \in DOMAIN files
        /\ k \notin NotStarted => files[git_files[k]] = Output(k)
\* C18 (amended): the exit status of a query is not looked at: when all
\* four queries ran, each file holds its own query's standard output, or
\* error output when that is empty, whatever the others exited with; a query
\* that cannot be started raises out of the snapshot before any file is
\* written.
C18_ExitStatusIgnored ==
  (Captured /\ snapshot_run.mkdir_ok) =>
     IF NotStarted # {}
     THEN /\ snapshot_exc = snapshot_run.git[Lowest(NotStarted)].exc
          /\ files = NoFiles
     ELSE /\ snapshot_exc = NoExc <=> snapshot_run.fail_at = 0
          /\ \A k \in 1..4 :
                (snapshot_run.fail_at = 0 \/ k < snapshot_run.fail_at)
                   => /\ git_files[k] \in DOMAIN files
                      /\ files[git_files[k]] = Output(k)
C18_Witness ==
  /\ Captured /\ snapshot_exc = NoExc
  /\ snapshot_run.git[1].returncode # 0
  /\ snapshot_run.git[2].returncode = 0
  /\ files[git_files[1]] = "e"
  /\ files[git_files[2]] = "o"
  /\ SnapshotNames \subseteq DOMAIN files

\* C19: resolving the environment leaves os.environ as it was; the resolved
\* environment has every ambient variable with its value, and at most
\* LITELLM_MODEL and LITELLM_TEMPERATURE in addition, each only when it was
\* absent; the marker of the session-integrated path is not put into it.
C19_ResolvedEnvironment ==
  Resolved =>
     /\ \A k \in DOMAIN environ : k \in DOMAIN env /\ env[k] = environ[k]
     /\ DOMAIN env \subseteq DOMAIN environ \cup {LITELLM_MODEL, LITELLM_TEMPERATURE}
     /\ {LITELLM_MODEL, LITELLM_TEMPERATURE} \subseteq DOMAIN env
     /\ TERMINAL_BENCH_SESSION \notin DOMAIN env
C19_AmbientUntouched ==
  /\ []C19_ResolvedEnvironment
  /\ [][pc # "new" => environ' = environ]_vars
C19_Witness ==
  /\ Returned /\ has_send_keys /\ Happened("agent")
  /\ TERMINAL_BENCH_SESSION \in DOMAIN proc_env
  /\ LITELLM_TEMPERATURE \in DOMAIN environ
  /\ env[LITELLM_TEMPERATURE] = environ[LITELLM_TEMPERATURE]
  /\ LITELLM_MODEL \notin DOMAIN environ

\* C20: with both credentials and no LITELLM_MODEL the default is
\* anthropic/claude-3.5-sonnet; gpt-4 is the default only when
\* OPENROUTER_API_KEY is absent.
C20_OpenRouterPriority ==
  (Resolved /\ LITELLM_MODEL \notin DOMAIN environ) =>
     /\ (OPENROUTER_API_KEY \in DOMAIN environ /\ OPENAI_API_KEY \in DOMAIN environ)
           => ModelIs("anthropic/claude-3.5-sonnet")
     /\ ModelIs("gpt-4") => OPENROUTER_API_KEY \notin DOMAIN environ
C20_Witness ==
  /\ Happened("agent")
  /\ OPENROUTER_API_KEY \in DOMAIN environ /\ OPENAI_API_KEY \in DOMAIN environ
  /\ LITELLM_MODEL \notin DOMAIN environ
  /\ proc_env[LITELLM_MODEL] = "anthropic/claude-3.5-sonnet"

====
